---- MODULE Spec2Model ----
(***************************************************************************)
(* A model of spinning_top's RawSpinlock (src/src/spinlock.rs) and of the  *)
(* Spinlock<T> / SpinlockGuard<T> containers built on it.                  *)
(*                                                                         *)
(* Each step of the model is one atomic memory operation of one execution  *)
(* context: the compare_exchange of try_lock, the relaxed load of the      *)
(* read-spin loop of lock, the store of unlock, or one access to the       *)
(* payload through a guard.                                                *)
(*                                                                         *)
(* The payload is ordinary (non-atomic) memory.  `fresh[c][l]` says that   *)
(* every write to the payload of l happens-before the current point of     *)
(* context c; `relFresh[l]` says the same of the view carried by the value *)
(* now stored in the flag of l.  An access to the payload by a context     *)
(* whose view is not fresh is a data race: its outcome is any value.       *)
(***************************************************************************)
EXTENDS Naturals, Integers, FiniteSets, Sequences, TLC

NumContexts == 2
NumLocks == 2
MaxValue == 1
MaxExtraUnlocks == 1

Contexts == 1..NumContexts
Locks == 1..NumLocks
Values == 0..MaxValue

VARIABLES
    locked,     \* locked[l]: the AtomicBool of RawSpinlock l
    data,       \* data[l]: the payload owned by Spinlock l
    alive,      \* alive[l]: the container exists (not consumed by into_inner)
    held,       \* held[c]: the locks whose SpinlockGuard context c holds
    pc,         \* pc[c]: "idle", or the position of c inside lock(): "try" (first
                \* try_lock), "spin" (the read loop), "retry" (try_lock after the loop)
    cur,        \* cur[c]: the lock that c's pending lock() call is about
    fresh,      \* fresh[c][l]: c's view of the payload of l is up to date
    relFresh,   \* relFresh[l]: the view published with the flag's value is up to date
    hist,       \* hist[l]: what last happened to container l (history)
    expect,     \* expect[l]: last value written through a guard, or the initial value (history)
    writer,     \* writer[l]: the context of that write, 0 when it is the initial value (history)
    balance,    \* balance[l]: successful acquisitions minus unlock() calls (history)
    acquirer,   \* acquirer[l]: the context whose acquisition made the live guard, 0 if none (history)
    last        \* the step just taken (history)

vars == <<locked, data, alive, held, pc, cur, fresh, relFresh, hist, expect, writer, balance, acquirer, last>>

Step(op, c, l, ok, v) == [op |-> op, ctx |-> c, lock |-> l, ok |-> ok, val |-> v]

----
(* Memory orderings used by the three atomic operations. *)

SuccessOrderingRelaxed == "Relaxed"
SuccessOrdering == "Acquire"
FailureOrdering == "Relaxed"
SpinLoadOrdering == "Relaxed"
UnlockOrderingRelaxed == "Relaxed"
UnlockOrdering == "Release"

Acquires(ord) == ord \in {"Acquire", "AcqRel", "SeqCst"}
Releases(ord) == ord \in {"Release", "AcqRel", "SeqCst"}

(* AtomicBool::new(false) *)
INITLocked == TRUE
INIT == FALSE

(* AtomicBool::compare_exchange(current, new, ..) applied to a cell. *)
compare_exchangeAlwaysOk(cell, current, new) == [ok |-> TRUE, value |-> new]
compare_exchange(cell, current, new) ==
    [ok |-> cell = current, value |-> IF cell = current THEN new ELSE cell]

(* RawSpinlock::try_lock by context c on lock l: one compare_exchange. *)
try_lock_resultIsErr(l) ==
    LET r == compare_exchange(locked[l], FALSE, TRUE)
    IN  [ok |-> ~r.ok, value |-> r.value]
try_lock_result(l) == compare_exchange(locked[l], FALSE, TRUE)

try_lock(c, l) ==
    LET r == try_lock_result(l)
        ord == IF r.ok THEN SuccessOrdering ELSE FailureOrdering
    IN  /\ locked' = [locked EXCEPT ![l] = r.value]
        /\ fresh' = [fresh EXCEPT ![c][l] = IF Acquires(ord) THEN @ \/ relFresh[l] ELSE @]
        /\ balance' = [balance EXCEPT ![l] = IF r.ok THEN @ + 1 ELSE @]
        /\ UNCHANGED relFresh

(* RawSpinlock::unlock by context c on lock l: one store of false. *)
unlockAll(c, l) ==
    /\ locked' = [m \in Locks |-> FALSE]
    /\ relFresh' = [relFresh EXCEPT ![l] = Releases(UnlockOrdering) /\ fresh[c][l]]
    /\ balance' = [balance EXCEPT ![l] = @ - 1]
    /\ UNCHANGED fresh
unlockNoStore(c, l) ==
    /\ locked' = locked
    /\ relFresh' = [relFresh EXCEPT ![l] = Releases(UnlockOrdering) /\ fresh[c][l]]
    /\ balance' = [balance EXCEPT ![l] = @ - 1]
    /\ UNCHANGED fresh
unlockOwnerOnly(c, l) ==
    /\ locked' = [locked EXCEPT ![l] = IF acquirer[l] = c THEN FALSE ELSE @]
    /\ relFresh' = [relFresh EXCEPT ![l] = Releases(UnlockOrdering) /\ fresh[c][l]]
    /\ balance' = [balance EXCEPT ![l] = @ - 1]
    /\ UNCHANGED fresh
unlock(c, l) ==
    /\ locked' = [locked EXCEPT ![l] = FALSE]
    /\ relFresh' = [relFresh EXCEPT ![l] = Releases(UnlockOrdering) /\ fresh[c][l]]
    /\ balance' = [balance EXCEPT ![l] = @ - 1]
    /\ UNCHANGED fresh

(* The history of container l: "new" (constructed, never acquired),       *)
(* "first_try" / "first_lock" (its first guard is live, obtained by        *)
(* try_lock / lock, nothing written yet), "taken" (a later guard is live,  *)
(* nothing written through it yet), "dirty" (the live guard has written),  *)
(* "free" (the last guard was dropped).                                    *)
FirstGuard == {"first_try", "first_lock"}
Acquired(l, op) ==
    [hist EXCEPT ![l] = IF @ = "new" THEN "first_" \o op ELSE "taken"]

----
Init ==
    /\ locked = [l \in Locks |-> INIT]
    /\ data \in [Locks -> Values]
    /\ alive = [l \in Locks |-> TRUE]
    /\ held = [c \in Contexts |-> {}]
    /\ pc = [c \in Contexts |-> "idle"]
    /\ cur = [c \in Contexts |-> 0]
    /\ fresh = [c \in Contexts |-> [l \in Locks |-> TRUE]]
    /\ relFresh = [l \in Locks |-> TRUE]
    /\ hist = [l \in Locks |-> "new"]
    /\ expect = data
    /\ writer = [l \in Locks |-> 0]
    /\ balance = [l \in Locks |-> 0]
    /\ acquirer = [l \in Locks |-> 0]
    /\ last = Step("new", 0, 0, TRUE, 0)

(* Spinlock::new(v): a container that into_inner consumed is replaced by a *)
(* newly constructed one.                                                  *)
New(c, l, v) ==
    /\ pc[c] = "idle"
    /\ ~alive[l]
    /\ alive' = [alive EXCEPT ![l] = TRUE]
    /\ locked' = [locked EXCEPT ![l] = INIT]
    /\ data' = [data EXCEPT ![l] = v]
    /\ fresh' = [d \in Contexts |-> [fresh[d] EXCEPT ![l] = TRUE]]
    /\ relFresh' = [relFresh EXCEPT ![l] = TRUE]
    /\ hist' = [hist EXCEPT ![l] = "new"]
    /\ expect' = [expect EXCEPT ![l] = v]
    /\ writer' = [writer EXCEPT ![l] = 0]
    /\ balance' = [balance EXCEPT ![l] = 0]
    /\ acquirer' = [acquirer EXCEPT ![l] = 0]
    /\ last' = Step("new", c, l, TRUE, 0)
    /\ UNCHANGED <<held, pc, cur>>

(* Spinlock::try_lock: RawSpinlock::try_lock, and a guard iff it returned true. *)
TryLock(c, l) ==
    /\ pc[c] = "idle"
    /\ alive[l]
    /\ try_lock(c, l)
    /\ LET ok == try_lock_result(l).ok
       IN  /\ held' = [held EXCEPT ![c] = IF ok THEN @ \cup {l} ELSE @]
           /\ hist' = IF ok THEN Acquired(l, "try") ELSE hist
           /\ acquirer' = IF ok THEN [acquirer EXCEPT ![l] = c] ELSE acquirer
           /\ last' = Step("try_lock", c, l, ok, 0)
    /\ UNCHANGED <<data, alive, pc, cur, expect, writer>>

(* Spinlock::lock is called: control enters RawSpinlock::lock. *)
LockCall(c, l) ==
    /\ pc[c] = "idle"
    /\ alive[l]
    /\ pc' = [pc EXCEPT ![c] = "try"]
    /\ cur' = [cur EXCEPT ![c] = l]
    /\ last' = Step("lock_call", c, l, TRUE, 0)
    /\ UNCHANGED <<locked, data, alive, held, fresh, relFresh, hist, expect, writer, balance, acquirer>>

(* `while !self.try_lock()`: returns on success, enters the read-spin on failure. *)
AfterTryReturn(ok) == "idle"
AfterTry(ok) == IF ok THEN "idle" ELSE "spin"

LockTry(c) ==
    /\ pc[c] \in {"try", "retry"}
    /\ LET l == cur[c]
           ok == try_lock_result(l).ok
           ret == AfterTry(ok) = "idle"
       IN  /\ try_lock(c, l)
           /\ pc' = [pc EXCEPT ![c] = AfterTry(ok)]
           /\ cur' = [cur EXCEPT ![c] = IF ret THEN 0 ELSE @]
           /\ held' = [held EXCEPT ![c] = IF ret THEN @ \cup {l} ELSE @]
           /\ hist' = IF ret THEN Acquired(l, "lock") ELSE hist
           /\ acquirer' = IF ret THEN [acquirer EXCEPT ![l] = c] ELSE acquirer
           /\ last' = Step("lock_try", c, l, ok, IF pc[c] = "retry" THEN 1 ELSE 0)
    /\ UNCHANGED <<data, alive, expect, writer>>

(* `while self.locked.load(Relaxed) { spin_loop_hint() }` *)
LockSpinSwap(c) ==
    /\ pc[c] = "spin"
    /\ LET l == cur[c]
       IN  /\ pc' = [pc EXCEPT ![c] = IF locked[l] THEN "spin" ELSE "retry"]
           /\ locked' = [locked EXCEPT ![l] = TRUE]
           /\ fresh' = [fresh EXCEPT ![c][l] =
                            IF Acquires(SpinLoadOrdering) THEN @ \/ relFresh[l] ELSE @]
           /\ last' = Step("lock_spin", c, l, ~locked[l], 0)
    /\ UNCHANGED <<data, alive, held, cur, relFresh, hist, expect, writer, balance, acquirer>>
LockSpinNoWait(c) ==
    /\ pc[c] = "spin"
    /\ LET l == cur[c]
       IN  /\ pc' = [pc EXCEPT ![c] = "retry"]
           /\ fresh' = [fresh EXCEPT ![c][l] =
                            IF Acquires(SpinLoadOrdering) THEN @ \/ relFresh[l] ELSE @]
           /\ last' = Step("lock_spin", c, l, ~locked[l], 0)
    /\ UNCHANGED <<locked, data, alive, held, cur, relFresh, hist, expect, writer, balance, acquirer>>
LockSpinForever(c) ==
    /\ pc[c] = "spin"
    /\ LET l == cur[c]
       IN  /\ pc' = [pc EXCEPT ![c] = "spin"]
           /\ fresh' = [fresh EXCEPT ![c][l] =
                            IF Acquires(SpinLoadOrdering) THEN @ \/ relFresh[l] ELSE @]
           /\ last' = Step("lock_spin", c, l, ~locked[l], 0)
    /\ UNCHANGED <<locked, data, alive, held, cur, relFresh, hist, expect, writer, balance, acquirer>>
LockSpin(c) ==
    /\ pc[c] = "spin"
    /\ LET l == cur[c]
       IN  /\ pc' = [pc EXCEPT ![c] = IF locked[l] THEN "spin" ELSE "retry"]
           /\ fresh' = [fresh EXCEPT ![c][l] =
                            IF Acquires(SpinLoadOrdering) THEN @ \/ relFresh[l] ELSE @]
           /\ last' = Step("lock_spin", c, l, ~locked[l], 0)
    /\ UNCHANGED <<locked, data, alive, held, cur, relFresh, hist, expect, writer, balance, acquirer>>

(* DerefMut on a guard: a write of the payload. *)
GuardWriteNoGuard(c, l, v) ==
    /\ pc[c] = "idle"
    /\ alive[l]
    /\ \E w \in (IF fresh[c][l] THEN {v} ELSE Values) :
           data' = [data EXCEPT ![l] = w]
    /\ fresh' = [d \in Contexts |-> [fresh[d] EXCEPT ![l] = (d = c)]]
    /\ relFresh' = [relFresh EXCEPT ![l] = FALSE]
    /\ hist' = [hist EXCEPT ![l] = "dirty"]
    /\ expect' = [expect EXCEPT ![l] = v]
    /\ writer' = [writer EXCEPT ![l] = c]
    /\ last' = Step("write", c, l, TRUE, 0)
    /\ UNCHANGED <<locked, alive, held, pc, cur, balance, acquirer>>
GuardWrite(c, l, v) ==
    /\ pc[c] = "idle"
    /\ l \in held[c]
    /\ \E w \in (IF fresh[c][l] THEN {v} ELSE Values) :
           data' = [data EXCEPT ![l] = w]
    /\ fresh' = [d \in Contexts |-> [fresh[d] EXCEPT ![l] = (d = c)]]
    /\ relFresh' = [relFresh EXCEPT ![l] = FALSE]
    /\ hist' = [hist EXCEPT ![l] = "dirty"]
    /\ expect' = [expect EXCEPT ![l] = v]
    /\ writer' = [writer EXCEPT ![l] = c]
    /\ last' = Step("write", c, l, TRUE, 0)
    /\ UNCHANGED <<locked, alive, held, pc, cur, balance, acquirer>>

(* Deref on a guard: a read of the payload. *)
GuardRead(c, l) ==
    /\ pc[c] = "idle"
    /\ l \in held[c]
    /\ \E v \in (IF fresh[c][l] THEN {data[l]} ELSE Values) :
           last' = Step("read", c, l, hist[l] # "dirty", v)
    /\ UNCHANGED <<locked, data, alive, held, pc, cur, fresh, relFresh, hist, expect, writer, balance, acquirer>>

(* Drop of a guard: RawSpinlock::unlock on the lock that produced it. *)
GuardDrop(c, l) ==
    /\ pc[c] = "idle"
    /\ l \in held[c]
    /\ unlock(c, l)
    /\ held' = [held EXCEPT ![c] = @ \ {l}]
    /\ hist' = [hist EXCEPT ![l] = "free"]
    /\ acquirer' = [acquirer EXCEPT ![l] = 0]
    /\ last' = Step("drop", c, l, acquirer[l] = c, 0)
    /\ UNCHANGED <<data, alive, pc, cur, expect, writer>>

(* GuardMarker = GuardSend: a guard held by c is moved to context d. *)
GuardSend(c, d, l) ==
    /\ pc[c] = "idle"
    /\ pc[d] = "idle"
    /\ c # d
    /\ l \in held[c]
    /\ held' = [held EXCEPT ![c] = @ \ {l}, ![d] = @ \cup {l}]
    /\ fresh' = [fresh EXCEPT ![d][l] = @ \/ fresh[c][l]]
    /\ last' = Step("send", d, l, TRUE, 0)
    /\ UNCHANGED <<locked, data, alive, pc, cur, relFresh, hist, expect, writer, balance, acquirer>>

(* Spinlock::into_inner: consumes the container; needs sole ownership, so *)
(* no guard borrows it and no context is inside lock() on it.             *)
SoleOwner(l) ==
    /\ \A c \in Contexts : l \notin held[c]
    /\ \A c \in Contexts : cur[c] # l

into_inner(l) == data[l]

IntoInnerLocking(c, l) ==
    /\ pc[c] = "idle"
    /\ alive[l]
    /\ SoleOwner(l)
    /\ alive' = [alive EXCEPT ![l] = FALSE]
    /\ locked' = [locked EXCEPT ![l] = TRUE]
    /\ last' = Step("into_inner", c, l, TRUE, into_inner(l))
    /\ UNCHANGED <<data, held, pc, cur, fresh, relFresh, hist, expect, writer, balance, acquirer>>
IntoInner(c, l) ==
    /\ pc[c] = "idle"
    /\ alive[l]
    /\ SoleOwner(l)
    /\ alive' = [alive EXCEPT ![l] = FALSE]
    /\ last' = Step("into_inner", c, l, TRUE, into_inner(l))
    /\ UNCHANGED <<locked, data, held, pc, cur, fresh, relFresh, hist, expect, writer, balance, acquirer>>

Next ==
    \/ \E c \in Contexts, l \in Locks, v \in Values : New(c, l, v)
    \/ \E c \in Contexts, l \in Locks : TryLock(c, l)
    \/ \E c \in Contexts, l \in Locks : LockCall(c, l)
    \/ \E c \in Contexts : LockTry(c)
    \/ \E c \in Contexts : LockSpin(c)
    \/ \E c \in Contexts, l \in Locks, v \in Values : GuardWrite(c, l, v)
    \/ \E c \in Contexts, l \in Locks : GuardRead(c, l)
    \/ \E c \in Contexts, l \in Locks : GuardDrop(c, l)
    \/ \E c, d \in Contexts, l \in Locks : GuardSend(c, d, l)
    \/ \E c \in Contexts, l \in Locks : IntoInner(c, l)

Spec == Init /\ [][Next]_vars

(* Misuse of the raw lock: RawSpinlock::unlock called directly, as in the  *)
(* doc example of RawSpinlock, by any context whether or not it holds the  *)
(* guard.  The guards, the payloads and the histories of the containers    *)
(* are left as they are.  `held` records which contexts hold a guard of a  *)
(* lock, so a context that acquires a lock it already holds a guard of is  *)
(* recorded once.  The number of unlocks in excess of acquisitions is      *)
(* capped by MaxExtraUnlocks.                                              *)
RawUnlock(c, l) ==
    /\ pc[c] = "idle"
    /\ alive[l]
    /\ balance[l] > 0 - MaxExtraUnlocks
    /\ unlock(c, l)
    /\ last' = Step("raw_unlock", c, l, l \in held[c], 0)
    /\ UNCHANGED <<data, alive, held, pc, cur, hist, expect, writer, acquirer>>

(* The operations of the lock itself, with direct unlocks.  Accesses to   *)
(* the payload are left out: once the contract of unlock is broken they   *)
(* are data races, and they do not read or write any flag.                *)
NextMisuse ==
    \/ \E c \in Contexts, l \in Locks : TryLock(c, l)
    \/ \E c \in Contexts, l \in Locks : LockCall(c, l)
    \/ \E c \in Contexts : LockTry(c)
    \/ \E c \in Contexts : LockSpin(c)
    \/ \E c \in Contexts, l \in Locks : GuardDrop(c, l)
    \/ \E c \in Contexts, l \in Locks : RawUnlock(c, l)

SpecMisuse == Init /\ [][NextMisuse]_vars

(* Scheduling: a context that is inside lock() keeps executing its loop,  *)
(* so each step of lock() is taken if it stays possible.  No fairness is  *)
(* assumed of calls a context is free not to make.                        *)
Fairness ==
    \A c \in Contexts : WF_vars(LockTry(c)) /\ WF_vars(LockSpin(c))

SpecLive == Init /\ [][Next]_vars /\ Fairness

----
TypeOK ==
    /\ locked \in [Locks -> BOOLEAN]
    /\ data \in [Locks -> Values]
    /\ alive \in [Locks -> BOOLEAN]
    /\ held \in [Contexts -> SUBSET Locks]
    /\ pc \in [Contexts -> {"idle", "try", "retry", "spin"}]
    /\ cur \in [Contexts -> Locks \cup {0}]
    /\ fresh \in [Contexts -> [Locks -> BOOLEAN]]
    /\ relFresh \in [Locks -> BOOLEAN]
    /\ hist \in [Locks -> {"new", "first_try", "first_lock", "taken", "dirty", "free"}]
    /\ expect \in [Locks -> Values]
    /\ writer \in [Locks -> Contexts \cup {0}]
    /\ balance \in [Locks -> Int]
    /\ acquirer \in [Locks -> Contexts \cup {0}]

Holders(l) == {c \in Contexts : l \in held[c]}
GuardLive(l) == Holders(l) # {}

----
(* C1: mutual exclusion.  In every reachable state, for every lock, at most *)
(* one context holds a guard of that lock.                                  *)
MutualExclusion == \A l \in Locks : Cardinality(Holders(l)) <= 1

(* A context has just failed to acquire a lock whose guard another context holds. *)
MutualExclusionWitness ==
    /\ last.op \in {"try_lock", "lock_try"}
    /\ ~last.ok
    /\ \E d \in Contexts : d # last.ctx /\ Holders(last.lock) = {d}

(* C2: while a guard of a lock is live (obtained by a try_lock that        *)
(* succeeded, or by lock), every try_lock on that lock returns "not        *)
(* acquired", each time it is repeated.                                    *)
TryLockFailsWhileGuardLive ==
    [][\A l \in Locks :
          (GuardLive(l) /\ last'.op = "try_lock" /\ last'.lock = l) => ~last'.ok]_vars

(* The holder of a guard obtained by the first try_lock has itself called *)
(* try_lock again on the same container, and was refused.                 *)
TryLockFailsWitness ==
    /\ last.op = "try_lock"
    /\ ~last.ok
    /\ last.lock \in held[last.ctx]
    /\ hist[last.lock] = "first_try"

(* C3: when the last thing that happened to a container is the drop of its *)
(* guard, a try_lock on that container succeeds and yields a guard.        *)
TryLockSucceedsAfterDrop ==
    [][\A l \in Locks :
          (hist[l] = "free" /\ last'.op = "try_lock" /\ last'.lock = l)
              => (last'.ok /\ l \in held'[last'.ctx])]_vars

(* A try_lock has just succeeded on a container that had a guard before   *)
(* ("taken" is the history of a guard that is not the container's first). *)
TryLockAfterDropWitness ==
    /\ last.op = "try_lock"
    /\ last.ok
    /\ hist[last.lock] = "taken"
    /\ last.lock \in held[last.ctx]

(* C4: independence.  A step on lock A (lock, try_lock, a guard drop, or   *)
(* any other operation on A) leaves the flag and the payload of every      *)
(* other lock B unchanged, and the outcome of a try_lock on B is decided   *)
(* by B's own history alone: it succeeds iff B is new or its last guard    *)
(* was dropped.                                                            *)
Independence ==
    [][\A a \in Locks :
          last'.lock = a =>
              /\ \A b \in Locks \ {a} :
                     /\ locked'[b] = locked[b]
                     /\ data'[b] = data[b]
                     /\ held'[last'.ctx] \cap {b} = held[last'.ctx] \cap {b}
              /\ last'.op = "try_lock" => (last'.ok <=> hist[a] \in {"new", "free"})]_vars

(* As in tests::three_locks: the guard of one lock has just been dropped  *)
(* while the guard of another lock is live, and that other is still locked. *)
IndependenceWitness ==
    /\ last.op = "drop"
    /\ ~locked[last.lock]
    /\ \E b \in Locks \ {last.lock} : GuardLive(b) /\ locked[b]

(* C5: value integrity.  Every read through a guard returns the last value *)
(* written through a guard of the same container, or the initial value     *)
(* when nothing was written; in particular the first access through a      *)
(* guard returns what the previous guard last wrote.                       *)
ValueIntegrity ==
    last.op = "read" => last.val = expect[last.lock]

(* The first access through a guard reads a value that another context     *)
(* wrote through a previous guard of the same container.                   *)
ValueIntegrityWitness ==
    /\ last.op = "read"
    /\ last.ok
    /\ hist[last.lock] = "taken"
    /\ writer[last.lock] \notin {0, last.ctx}
    /\ last.val = expect[last.lock]

(* C6: into_inner on a container with no outstanding guard returns the     *)
(* last value written through any guard (the initial value if none), and   *)
(* the step neither changes the flag nor creates a guard.                  *)
IntoInnerReturnsLastWrite ==
    [][\A l \in Locks :
          (last'.op = "into_inner" /\ last'.lock = l) =>
              /\ ~GuardLive(l)
              /\ last'.val = expect[l]
              /\ locked' = locked
              /\ held' = held
              /\ balance' = balance]_vars

(* into_inner has just returned a value that was written through a guard. *)
IntoInnerWitness ==
    /\ last.op = "into_inner"
    /\ writer[last.lock] # 0
    /\ last.val = expect[last.lock]
    /\ ~alive[last.lock]

(* C7: the step at which a lock() call returns is a step of that call's    *)
(* own compare_exchange that changed the flag from unlocked to locked, and *)
(* the caller holds the guard afterwards.                                  *)
LockReturnsOnlyWhenHeld ==
    [][\A c \in Contexts :
          (pc[c] # "idle" /\ pc'[c] = "idle") =>
              /\ pc[c] \in {"try", "retry"}
              /\ last'.op = "lock_try" /\ last'.ctx = c /\ last'.lock = cur[c]
              /\ ~locked[cur[c]]
              /\ locked'[cur[c]]
              /\ cur[c] \in held'[c]]_vars

(* A lock() call has just returned while another context is still waiting *)
(* inside lock() for the same lock.                                       *)
LockReturnsWitness ==
    /\ last.op = "lock_try"
    /\ last.ok
    /\ pc[last.ctx] = "idle"
    /\ last.lock \in held[last.ctx]
    /\ \E d \in Contexts : d # last.ctx /\ pc[d] # "idle" /\ cur[d] = last.lock

(* C8: try_lock is one step that leaves its caller outside any wait loop;  *)
(* it returns a guard iff the flag was unlocked, and on "not acquired" the *)
(* flag, the guards and the payload are unchanged.                         *)
TryLockSingleStep ==
    [][\A c \in Contexts, l \in Locks :
          (last'.op = "try_lock" /\ last'.ctx = c /\ last'.lock = l) =>
              /\ pc[c] = "idle" /\ pc' = pc /\ cur' = cur
              /\ last'.ok <=> ~locked[l]
              /\ last'.ok => (locked'[l] /\ held'[c] = held[c] \cup {l})
              /\ ~last'.ok => (locked' = locked /\ held' = held /\ data' = data)]_vars

(* A try_lock has just returned "not acquired" on a locked lock whose     *)
(* guard is live, and its caller is idle.                                 *)
TryLockSingleStepWitness ==
    /\ last.op = "try_lock"
    /\ ~last.ok
    /\ locked[last.lock]
    /\ GuardLive(last.lock)
    /\ pc[last.ctx] = "idle"

(* C9: acquisitions minus unlocks equals the number of live guards of each *)
(* lock (every guard that is gone made exactly one unlock) and is never    *)
(* negative; right after a drop the flag is false and the guard is gone.   *)
OneUnlockPerGuard ==
    /\ \A l \in Locks : balance[l] >= 0 /\ balance[l] = Cardinality(Holders(l))
    /\ last.op = "drop" => (~locked[last.lock] /\ ~GuardLive(last.lock))

(* A guard has just been dropped: its one unlock brought the balance back to 0. *)
OneUnlockWitness ==
    /\ last.op = "drop"
    /\ balance[last.lock] = 0
    /\ ~locked[last.lock]
    /\ hist[last.lock] = "free"

(* C10: a newly constructed container is unlocked and holds its initial    *)
(* payload; a try_lock on it cannot fail, and a read through its first     *)
(* guard returns the value it was constructed with.                        *)
NewIsUnlocked ==
    /\ \A l \in Locks :
           (alive[l] /\ hist[l] = "new") =>
               (~locked[l] /\ ~GuardLive(l) /\ writer[l] = 0 /\ data[l] = expect[l])
    /\ ~(last.op = "try_lock" /\ ~last.ok /\ hist[last.lock] = "new")
    /\ (last.op = "read" /\ hist[last.lock] \in FirstGuard) =>
           (writer[last.lock] = 0 /\ last.val = expect[last.lock])

(* As in tests::create_and_lock: the guard returned by the first try_lock *)
(* on a new container has just been read.                                 *)
NewIsUnlockedWitness ==
    /\ last.op = "read"
    /\ hist[last.lock] = "first_try"
    /\ writer[last.lock] = 0
    /\ last.val = data[last.lock]

(* C11: no re-entrancy.  While a context is inside lock() on a lock whose  *)
(* guard it holds itself, no step makes that call return, the guard stays  *)
(* where it is (nothing releases the lock), and the flag stays locked: the *)
(* caller's own steps are failed exchanges and reads that change no flag.  *)
Acquisitions == {"try_lock", "lock_try"}
ReentrantLockNeverReturns ==
    [][\A c \in Contexts :
          (pc[c] # "idle" /\ cur[c] \in held[c]) =>
              /\ pc'[c] # "idle"
              /\ cur'[c] = cur[c]
              /\ cur[c] \in held'[c]
              /\ locked[cur[c]] /\ locked'[cur[c]]
              /\ last'.ctx = c => (last'.op \in {"lock_try", "lock_spin"} /\ ~last'.ok
                                   /\ locked' = locked)]_vars

(* A context that holds the guard of a lock is in the read loop of lock() *)
(* on that same lock and has just read the flag as locked.                *)
ReentrantWitness ==
    /\ last.op = "lock_spin"
    /\ ~last.ok
    /\ pc[last.ctx] = "spin"
    /\ cur[last.ctx] = last.lock
    /\ last.lock \in held[last.ctx]

(* C12: the payload of a container changes only in a write step of a       *)
(* context that holds its guard; lock, try_lock, the read loop, a drop, a  *)
(* transfer and a read leave every payload as it is.                       *)
PayloadChangesOnlyThroughGuard ==
    [][/\ \A l \in Locks :
              (alive[l] /\ data'[l] # data[l]) =>
                  (last'.op = "write" /\ last'.lock = l /\ l \in held[last'.ctx]
                   /\ pc[last'.ctx] = "idle")
       /\ last'.op \in {"try_lock", "lock_call", "lock_try", "lock_spin",
                        "drop", "send", "read", "into_inner"} => data' = data]_vars

(* A guard holder has just written a new value while another context is   *)
(* waiting inside lock() for the same container.                          *)
PayloadWitness ==
    /\ last.op = "write"
    /\ last.lock \in held[last.ctx]
    /\ data[last.lock] = expect[last.lock]
    /\ \E d \in Contexts : d # last.ctx /\ pc[d] = "spin" /\ cur[d] = last.lock

(* C13: guard transfer.  While a guard is held by a context other than the *)
(* one that acquired it, it is the only guard of its lock and the lock is  *)
(* locked; when such a guard is dropped the lock has been unlocked once    *)
(* (balance 0), no guard is left and the flag is false, so the lock can be *)
(* acquired again.                                                         *)
Transferred(l) == \E c \in Holders(l) : acquirer[l] # c
TransferredGuardReleases ==
    /\ \A l \in Locks :
           Transferred(l) =>
               (Cardinality(Holders(l)) = 1 /\ locked[l] /\ balance[l] = 1)
    /\ (last.op = "drop" /\ ~last.ok) =>
           (~locked[last.lock] /\ ~GuardLive(last.lock) /\ balance[last.lock] = 0)

(* A guard has just been dropped by a context that did not acquire it. *)
TransferredGuardWitness ==
    /\ last.op = "drop"
    /\ ~last.ok
    /\ ~locked[last.lock]
    /\ hist[last.lock] = "free"

(* C14: memory ordering.  With the orderings of the code (try_lock:       *)
(* Acquire on success, Relaxed on failure; unlock: Release), every write   *)
(* to the payload happens-before the view of whoever holds the guard, and  *)
(* the view left in the flag by the last unlock contains every write.      *)
HappensBefore ==
    /\ \A l \in Locks : \A c \in Holders(l) : fresh[c][l]
    /\ \A l \in Locks : (alive[l] /\ ~GuardLive(l)) => relFresh[l]

(* A context has just acquired a lock whose payload another context wrote *)
(* through the previous guard, and its view contains that write.          *)
HappensBeforeWitness ==
    /\ last.op \in Acquisitions
    /\ last.ok
    /\ hist[last.lock] = "taken"
    /\ writer[last.lock] \notin {0, last.ctx}
    /\ fresh[last.ctx][last.lock]

(* C15: flag/owner invariant.  The flag of a lock is true iff exactly one *)
(* guard of it is live, and false iff none is.                            *)
FlagIffHeld ==
    \A l \in Locks :
        /\ locked[l] <=> Cardinality(Holders(l)) = 1
        /\ ~locked[l] <=> Holders(l) = {}

(* One lock is locked with one live guard while another, whose guard was *)
(* dropped, is unlocked with none.                                       *)
FlagIffHeldWitness ==
    \E l, m \in Locks :
        /\ locked[l] /\ Cardinality(Holders(l)) = 1
        /\ ~locked[m] /\ Holders(m) = {} /\ hist[m] = "free"

(* C16: the flag's state machine.  Every flag starts false; it goes from   *)
(* false to true only in a successful compare_exchange of try_lock (called *)
(* directly or from lock) on that lock; it goes from true to false only in *)
(* the unlock of a guard drop on that lock; the read loop and a failed     *)
(* try_lock change no flag.                                                *)
FlagStateMachine ==
    /\ \A l \in Locks : ~locked[l]
    /\ [][/\ \A l \in Locks :
                 /\ (~locked[l] /\ locked'[l]) =>
                        (last'.op \in Acquisitions /\ last'.ok /\ last'.lock = l)
                 /\ (locked[l] /\ ~locked'[l]) =>
                        (last'.op = "drop" /\ last'.lock = l)
          /\ (last'.op = "lock_spin" \/ (last'.op \in Acquisitions /\ ~last'.ok)) =>
                 locked' = locked]_vars

(* Neither state is terminal: a flag that a drop made false has just been *)
(* made true again by a lock() that had waited in the read loop.          *)
FlagStateMachineWitness ==
    /\ last.op = "lock_try"
    /\ last.ok
    /\ last.val = 1
    /\ locked[last.lock]
    /\ hist[last.lock] = "taken"

(* C17: of the attempts made on a lock between two releases exactly one    *)
(* succeeds: acquisitions never lead unlocks by more than one, a           *)
(* successful attempt is the one that holds the lock, and an attempt fails *)
(* only when another attempt has won (the flag is true, a guard is live).  *)
ExactlyOneWinner ==
    /\ \A l \in Locks : balance[l] \in {0, 1}
    /\ (last.op \in Acquisitions /\ last.ok) =>
           (balance[last.lock] = 1 /\ Holders(last.lock) = {last.ctx})
    /\ (last.op \in Acquisitions /\ ~last.ok) =>
           (balance[last.lock] = 1 /\ locked[last.lock] /\ GuardLive(last.lock))

(* Two contexts were attempting at once on an unlocked lock: one has just *)
(* won while the exchange of the other is still pending.                  *)
ExactlyOneWinnerWitness ==
    /\ last.op = "lock_try"
    /\ last.ok
    /\ \E d \in Contexts :
           d # last.ctx /\ pc[d] \in {"try", "retry"} /\ cur[d] = last.lock

(* C18: two-phase waiting.  A failed exchange inside lock() leads to the   *)
(* read loop; a context in the read loop only reads (no flag changes by    *)
(* its step) and leaves the loop for another exchange only in a step where *)
(* its own read saw the flag unlocked; the exchange that follows the loop  *)
(* leads back to the loop when it fails.                                   *)
TwoPhaseWaiting ==
    [][\A c \in Contexts :
          /\ (pc[c] \in {"try", "retry"} /\ last'.ctx = c /\ last'.op = "lock_try"
                  /\ ~last'.ok) => pc'[c] = "spin"
          /\ pc[c] = "spin" =>
                 /\ pc'[c] \in {"spin", "retry"}
                 /\ last'.ctx = c => (last'.op = "lock_spin" /\ locked' = locked
                                      /\ balance' = balance)
                 /\ pc'[c] = "retry" =>
                        (last'.op = "lock_spin" /\ last'.ctx = c /\ last'.ok
                         /\ ~locked[cur[c]])
          /\ pc'[c] = "retry" => pc[c] \in {"spin", "retry"}]_vars

(* The exchange that followed the read loop has just failed, because      *)
(* another context acquired the lock in between; the waiter is back in    *)
(* the read loop.                                                         *)
TwoPhaseWitness ==
    /\ last.op = "lock_try"
    /\ ~last.ok
    /\ last.val = 1
    /\ pc[last.ctx] = "spin"
    /\ \E d \in Contexts : d # last.ctx /\ last.lock \in held[d]

(* C19: unlock is unconditional and unchecked.  A direct unlock of lock l, *)
(* by any context and whatever the flag was, is one step that leaves the   *)
(* flag of l false and changes no other flag, no guard, no payload and no  *)
(* position of any context; and since the outcome of an exchange depends   *)
(* on the flag alone, after an unlock by a non-owner the lock can be       *)
(* acquired although a guard of it is live.                                *)
UnlockUnchecked ==
    [][/\ last'.op = "raw_unlock" =>
              /\ ~locked'[last'.lock]
              /\ \A m \in Locks \ {last'.lock} : locked'[m] = locked[m]
              /\ data' = data /\ held' = held /\ alive' = alive
              /\ pc' = pc /\ cur' = cur /\ fresh' = fresh
       /\ last'.op \in Acquisitions =>
              /\ last'.ok <=> ~locked[last'.lock]
              /\ last'.ok => last'.lock \in held'[last'.ctx]]_vars

(* A context that holds no guard of a lock has just unlocked it while    *)
(* another context holds its guard: the flag is false, the guard is live. *)
UnlockUncheckedWitness ==
    /\ last.op = "raw_unlock"
    /\ ~last.ok
    /\ GuardLive(last.lock)
    /\ last.ctx \notin Holders(last.lock)
    /\ ~locked[last.lock]

(* C20: deadlock freedom.  Under weak fairness of the steps of lock(), for *)
(* every lock whose guards are always eventually dropped: whenever some    *)
(* context is inside lock() on it, some context eventually acquires it.    *)
Waiting(l) == \E c \in Contexts : pc[c] # "idle" /\ cur[c] = l
AcquiredNow(l) == last.op \in Acquisitions /\ last.ok /\ last.lock = l
DeadlockFree ==
    \A l \in Locks :
        (GuardLive(l) ~> ~GuardLive(l)) => (Waiting(l) ~> AcquiredNow(l))

(* A lock() that had to wait in the read loop has just acquired the lock. *)
DeadlockFreeWitness ==
    /\ last.op = "lock_try"
    /\ last.ok
    /\ last.val = 1
    /\ last.lock \in held[last.ctx]
    /\ pc[last.ctx] = "idle"

====
